---- MODULE Spec2Model ----
(***************************************************************************)
(* A model of pdf_utils.py: MedicalPaperPreprocessor.                      *)
(*                                                                         *)
(*   Spec        the program of __main__: process_all_pdfs over the        *)
(*               discovered files (open, read, close, tokenize, the        *)
(*               windowing loop of chunk_text one iteration per step,      *)
(*               the tagging of records) followed by save_chunks_to_json.  *)
(*   LiveSpec    Spec with weak fairness: the single thread runs on.       *)
(*   SpecFilter  the truncation of extract_main_text_from_pdf on texts     *)
(*               over a small vocabulary.                                  *)
(*   SpecClean   clean_text on strings over { - a space tab newline }.     *)
(*                                                                         *)
(* Characters are one-character strings and a text is a sequence of them.  *)
(***************************************************************************)
EXTENDS Integers, Sequences, FiniteSets, TLC

VARIABLES
    \* ---- the preprocessor instance (lines 18-21) ----
    chunk_size_tokens, overlap_tokens, pdf_files,
    \* ---- the run of __main__ ----
    pc,            \* position of the program
    docIdx,        \* position of the for loop of process_all_pdfs in pdf_files
    openHandles,   \* files whose fitz document is open
    raised,        \* the exception that ended the run, "None" if none
    total_tokens,  \* chunk_text: len(tokens)
    start,         \* chunk_text: the loop variable
    chunks,        \* chunk_text: the list of chunks, each the tokens of its window
    all_chunks,    \* process_all_pdfs: the record list
    emitted,       \* history: every chunk appended by chunk_text, with its file
    saveCalls,     \* history: calls of save_chunks_to_json
    outFile,       \* content of the output file
    outFile0,      \* content of the output file when the run began
    \* ---- the text functions ----
    tpc,           \* position of the text specifications
    full_text,     \* extract_main_text_from_pdf: the page texts (line 57)
    input,         \* history: the text before line 63, or clean_text's argument
    text,          \* the variable text of the function
    text2          \* clean_text of clean_text's result

vars == <<chunk_size_tokens, overlap_tokens, pdf_files, pc, docIdx, openHandles,
          raised, total_tokens, start, chunks, all_chunks, emitted, saveCalls,
          outFile, outFile0, tpc, full_text, input, text, text2>>

progVars == <<chunk_size_tokens, overlap_tokens, pdf_files, pc, docIdx, openHandles,
              raised, total_tokens, start, chunks, all_chunks, emitted, saveCalls,
              outFile, outFile0>>

textVars == <<tpc, full_text, input, text, text2>>

\* ------------------------------------------------------------------ bounds
MaxSize == 3      \* chunk_size_tokens ranges over 1..MaxSize
MaxTokens == 6    \* the tokenizer returns 0..MaxTokens tokens
MaxDocs == 2      \* at most MaxDocs files in pdf_dir
MaxPieces == 4    \* a document is at most MaxPieces words, separators and page breaks
MaxLen == 6       \* clean_text is given at most MaxLen characters

Min(a, b) == IF a <= b THEN a ELSE b

\* ------------------------------------------------------------------ helpers
\* File names are 1..MaxDocs; glob lists each file once, in any order.
FileNames == 1..MaxDocs

Listings ==
    {s \in UNION {[1..k -> FileNames] : k \in 0..MaxDocs} :
        \A i, j \in DOMAIN s : i # j => s[i] # s[j]}

\* The tokens of a text of n tokens: the tokenizer is external, and a token is
\* identified by its position.
Tokens(n) == [i \in 1..n |-> i]

\* Python's tokens[start:end] for 0 <= start, end.
SliceTokens_short(tokens, s, e) == SubSeq(tokens, s + 1, Min(e, Len(tokens)) - 1)

SliceTokens(tokens, s, e) == SubSeq(tokens, s + 1, Min(e, Len(tokens)))

\* line 109
Step_noOverlap(size, overlap) == size

Step(size, overlap) == size - overlap

\* line 110
StepInvalid_negativeOnly(step) == step < 0

StepInvalid(step) == step <= 0

\* range(0, stop, step): whether the loop variable s is still in the range.
\* (range raises for step = 0, which line 110 excludes.)
RangeHasNext(s, stop, step) ==
    \/ step > 0 /\ s < stop
    \/ step < 0 /\ s > stop

CurrentPdf == pdf_files[docIdx]

Absent == <<"absent">>
Stale == <<"stale">>

\* ------------------------------------------------------------------ Init
TextIdle ==
    /\ tpc = "idle"
    /\ full_text = <<>>
    /\ input = <<>>
    /\ text = <<>>
    /\ text2 = <<>>

Init ==
    /\ chunk_size_tokens \in 1..MaxSize
    /\ overlap_tokens \in (-1)..MaxSize
    /\ pdf_files \in Listings
    /\ pc = "next_pdf"
    /\ docIdx = 1
    /\ openHandles = {}
    /\ raised = "None"
    /\ total_tokens = 0
    /\ start = 0
    /\ chunks = <<>>
    /\ all_chunks = <<>>
    /\ emitted = <<>>
    /\ saveCalls = 0
    /\ outFile0 \in {Absent, Stale}
    /\ outFile = outFile0
    /\ TextIdle

\* ------------------------------------------------------------------ actions
\* line 40: fitz.open succeeds
OpenPdf ==
    /\ pc = "next_pdf"
    /\ docIdx <= Len(pdf_files)
    /\ openHandles' = openHandles \cup {CurrentPdf}
    /\ pc' = "read"
    /\ UNCHANGED <<chunk_size_tokens, overlap_tokens, pdf_files, docIdx, raised,
                   total_tokens, start, chunks, all_chunks, emitted, saveCalls,
                   outFile, outFile0, textVars>>

\* line 40: fitz.open raises; nothing catches it up to __main__
OpenPdfFails ==
    /\ pc = "next_pdf"
    /\ docIdx <= Len(pdf_files)
    /\ raised' = "FileDataError"
    /\ pc' = "aborted"
    /\ UNCHANGED <<chunk_size_tokens, overlap_tokens, pdf_files, docIdx, openHandles,
                   total_tokens, start, chunks, all_chunks, emitted, saveCalls,
                   outFile, outFile0, textVars>>

\* lines 41-57: every page is read
ReadPages ==
    /\ pc = "read"
    /\ pc' = "close"
    /\ UNCHANGED <<chunk_size_tokens, overlap_tokens, pdf_files, docIdx, openHandles,
                   raised, total_tokens, start, chunks, all_chunks, emitted,
                   saveCalls, outFile, outFile0, textVars>>

\* lines 42-43: loading a page or page.get_text raises; line 58 is not reached
ReadPagesFails ==
    /\ pc = "read"
    /\ raised' = "RuntimeError"
    /\ pc' = "aborted"
    /\ UNCHANGED <<chunk_size_tokens, overlap_tokens, pdf_files, docIdx, openHandles,
                   total_tokens, start, chunks, all_chunks, emitted, saveCalls,
                   outFile, outFile0, textVars>>

\* line 58: doc.close()
ClosePdf ==
    /\ pc = "close"
    /\ openHandles' = openHandles \ {CurrentPdf}
    /\ pc' = "tokenize"
    /\ UNCHANGED <<chunk_size_tokens, overlap_tokens, pdf_files, docIdx, raised,
                   total_tokens, start, chunks, all_chunks, emitted, saveCalls,
                   outFile, outFile0, textVars>>

\* lines 61-69, 133, 105-108: the text is truncated and cleaned, and the
\* external tokenizer returns some number of tokens
Tokenize ==
    /\ pc = "tokenize"
    /\ \E n \in 0..MaxTokens : total_tokens' = n
    /\ chunks' = <<>>
    /\ start' = 0
    /\ pc' = "check_step"
    /\ UNCHANGED <<chunk_size_tokens, overlap_tokens, pdf_files, docIdx, openHandles,
                   raised, all_chunks, emitted, saveCalls, outFile, outFile0,
                   textVars>>

\* lines 109-111
CheckStep ==
    /\ pc = "check_step"
    /\ IF StepInvalid(Step(chunk_size_tokens, overlap_tokens))
         THEN raised' = "ValueError" /\ pc' = "aborted"
         ELSE raised' = raised /\ pc' = "loop"
    /\ UNCHANGED <<chunk_size_tokens, overlap_tokens, pdf_files, docIdx, openHandles,
                   total_tokens, start, chunks, all_chunks, emitted, saveCalls,
                   outFile, outFile0, textVars>>

\* lines 113-119 without the break of lines 118-119
ChunkIter_noBreak ==
    /\ pc = "loop"
    /\ RangeHasNext(start, total_tokens, Step(chunk_size_tokens, overlap_tokens))
    /\ LET end == start + chunk_size_tokens
           chunk_tokens == SliceTokens(Tokens(total_tokens), start, end)
       IN /\ chunks' = Append(chunks, chunk_tokens)
          /\ emitted' = Append(emitted, [source |-> CurrentPdf, text |-> chunk_tokens])
          /\ pc' = "loop"
          /\ start' = start + Step(chunk_size_tokens, overlap_tokens)
    /\ UNCHANGED <<chunk_size_tokens, overlap_tokens, pdf_files, docIdx, openHandles,
                   raised, total_tokens, all_chunks, saveCalls, outFile, outFile0,
                   textVars>>

\* lines 113-119: one iteration of the loop
ChunkIter ==
    /\ pc = "loop"
    /\ RangeHasNext(start, total_tokens, Step(chunk_size_tokens, overlap_tokens))
    /\ LET end == start + chunk_size_tokens
           chunk_tokens == SliceTokens(Tokens(total_tokens), start, end)
       IN /\ chunks' = Append(chunks, chunk_tokens)
          /\ emitted' = Append(emitted, [source |-> CurrentPdf, text |-> chunk_tokens])
          /\ IF end >= total_tokens
               THEN pc' = "chunked" /\ start' = start
               ELSE pc' = "loop"
                    /\ start' = start + Step(chunk_size_tokens, overlap_tokens)
    /\ UNCHANGED <<chunk_size_tokens, overlap_tokens, pdf_files, docIdx, openHandles,
                   raised, total_tokens, all_chunks, saveCalls, outFile, outFile0,
                   textVars>>

\* line 113: the range is exhausted
ChunkLoopExhausted ==
    /\ pc = "loop"
    /\ ~RangeHasNext(start, total_tokens, Step(chunk_size_tokens, overlap_tokens))
    /\ pc' = "chunked"
    /\ UNCHANGED <<chunk_size_tokens, overlap_tokens, pdf_files, docIdx, openHandles,
                   raised, total_tokens, start, chunks, all_chunks, emitted,
                   saveCalls, outFile, outFile0, textVars>>

\* lines 147-152 with a counter that runs on over the whole record list
Records_running(source, cs) ==
    [i \in 1..Len(cs) |->
        [source |-> source, chunk_index |-> Len(all_chunks) + i - 1, text |-> cs[i]]]

\* lines 147-152: enumerate(chunks)
Records(source, cs) ==
    [i \in 1..Len(cs) |-> [source |-> source, chunk_index |-> i - 1, text |-> cs[i]]]

\* lines 146-152 followed by a write of the list so far
AppendRecords_savesEach ==
    /\ pc = "chunked"
    /\ all_chunks' = all_chunks \o Records(CurrentPdf, chunks)
    /\ docIdx' = docIdx + 1
    /\ pc' = "next_pdf"
    /\ saveCalls' = saveCalls + 1
    /\ outFile' = all_chunks'
    /\ UNCHANGED <<chunk_size_tokens, overlap_tokens, pdf_files, openHandles, raised,
                   total_tokens, start, chunks, emitted, outFile0, textVars>>

\* lines 120, 134, 146-152: chunk_text returns and its chunks are tagged
AppendRecords ==
    /\ pc = "chunked"
    /\ all_chunks' = all_chunks \o Records(CurrentPdf, chunks)
    /\ docIdx' = docIdx + 1
    /\ pc' = "next_pdf"
    /\ UNCHANGED <<chunk_size_tokens, overlap_tokens, pdf_files, openHandles, raised,
                   total_tokens, start, chunks, emitted, saveCalls, outFile,
                   outFile0, textVars>>

\* lines 145, 153, 172: the files are exhausted and process_all_pdfs returns
ReturnAllChunks ==
    /\ pc = "next_pdf"
    /\ docIdx > Len(pdf_files)
    /\ pc' = "save"
    /\ UNCHANGED <<chunk_size_tokens, overlap_tokens, pdf_files, docIdx, openHandles,
                   raised, total_tokens, start, chunks, all_chunks, emitted,
                   saveCalls, outFile, outFile0, textVars>>

\* lines 155-164, 175
SaveChunksToJson ==
    /\ pc = "save"
    /\ saveCalls' = saveCalls + 1
    /\ outFile' = all_chunks
    /\ pc' = "done"
    /\ UNCHANGED <<chunk_size_tokens, overlap_tokens, pdf_files, docIdx, openHandles,
                   raised, total_tokens, start, chunks, all_chunks, emitted,
                   outFile0, textVars>>

Next ==
    \/ OpenPdf
    \/ OpenPdfFails
    \/ ReadPages
    \/ ReadPagesFails
    \/ ClosePdf
    \/ Tokenize
    \/ CheckStep
    \/ ChunkIter
    \/ ChunkLoopExhausted
    \/ AppendRecords
    \/ ReturnAllChunks
    \/ SaveChunksToJson

Spec == Init /\ [][Next]_vars

\* The program is one thread that runs on until it returns or raises.
LiveSpec == Spec /\ WF_vars(Next)

\* ------------------------------------------------- the program is not running
ProgIdle ==
    /\ chunk_size_tokens = 500
    /\ overlap_tokens = 50
    /\ pdf_files = <<>>
    /\ pc = "idle"
    /\ docIdx = 1
    /\ openHandles = {}
    /\ raised = "None"
    /\ total_tokens = 0
    /\ start = 0
    /\ chunks = <<>>
    /\ all_chunks = <<>>
    /\ emitted = <<>>
    /\ saveCalls = 0
    /\ outFile0 = Absent
    /\ outFile = outFile0

\* ------------------------------------------------------------------ regex
UpperCase == {"A", "B", "E", "R"}

\* re.IGNORECASE: characters are compared in lower case
Lower(c) ==
    CASE c = "A" -> "a"
      [] c = "B" -> "b"
      [] c = "E" -> "e"
      [] c = "R" -> "r"
      [] OTHER -> c

\* \w of the characters in use
IsWordChar(c) ==
    c \in {"a", "b", "c", "e", "f", "g", "h", "i", "l", "n", "o", "p", "r", "s",
           "x", "y", "_"} \cup UpperCase

\* \b between t[i] and t[i + 1], for 0 <= i <= Len(t)
WordBoundary(t, i) ==
    (i > 0 /\ IsWordChar(t[i])) # (i < Len(t) /\ IsWordChar(t[i + 1]))

\* \bkw\b with re.IGNORECASE matches t at offset i (0-based)
MatchAt(kw, t, i) ==
    /\ i + Len(kw) <= Len(t)
    /\ \A j \in 1..Len(kw) : Lower(t[i + j]) = Lower(kw[j])
    /\ WordBoundary(t, i)
    /\ WordBoundary(t, i + Len(kw))

\* re.search: match.start() of the first match, -1 for None
ReSearch(kw, t) ==
    IF \E i \in 0..Len(t) : MatchAt(kw, t, i)
      THEN CHOOSE i \in 0..Len(t) :
              MatchAt(kw, t, i) /\ \A j \in 0..(i - 1) : ~MatchAt(kw, t, j)
      ELSE -1

\* lines 63-65 and 66-68 cutting at match.end()
TruncateAt_end(kw, t) ==
    LET m == ReSearch(kw, t) IN IF m >= 0 THEN SubSeq(t, 1, m + Len(kw)) ELSE t

\* lines 63-65 and 66-68: text[:match.start()] if there is a match
TruncateAt(kw, t) ==
    LET m == ReSearch(kw, t) IN IF m >= 0 THEN SubSeq(t, 1, m) ELSE t

References == <<"R", "e", "f", "e", "r", "e", "n", "c", "e", "s">>
Bibliography == <<"B", "i", "b", "l", "i", "o", "g", "r", "a", "p", "h", "y">>

\* ------------------------------------------------------------ SpecFilter
\* What a page text is made of; PageBreak ends a page.
PageBreak == <<"\n">>

Pieces ==
    { References,
      <<"r", "e", "f", "e", "r", "e", "n", "c", "e", "s">>,
      <<"b", "i", "b", "l", "i", "o", "g", "r", "a", "p", "h", "y">>,
      <<"x">>, <<"_">>, <<" ">>, PageBreak }

RECURSIVE SplitPages(_)
SplitPages(w) ==
    IF w = <<>> THEN << <<>> >>
    ELSE LET r == SplitPages(Tail(w))
         IN IF Head(w) = PageBreak
              THEN << <<>> >> \o r
              ELSE << Head(w) \o r[1] >> \o Tail(r)

\* line 61: "\n".join(full_text)
RECURSIVE JoinPages(_)
JoinPages(pages) ==
    IF pages = <<>> THEN <<>>
    ELSE IF Len(pages) = 1 THEN pages[1]
    ELSE pages[1] \o <<"\n">> \o JoinPages(Tail(pages))

InitFilter ==
    /\ ProgIdle
    /\ tpc = "pages"
    /\ \E w \in UNION {[1..k -> Pieces] : k \in 0..MaxPieces} :
          full_text = SplitPages(w)
    /\ input = <<>>
    /\ text = <<>>
    /\ text2 = <<>>

\* line 61
JoinFullText ==
    /\ tpc = "pages"
    /\ text' = JoinPages(full_text)
    /\ input' = text'
    /\ tpc' = "joined"
    /\ UNCHANGED <<progVars, full_text, text2>>

\* lines 63-65
TruncateReferences ==
    /\ tpc = "joined"
    /\ text' = TruncateAt(References, text)
    /\ tpc' = "references_cut"
    /\ UNCHANGED <<progVars, full_text, input, text2>>

\* lines 66-69
TruncateBibliography ==
    /\ tpc = "references_cut"
    /\ text' = TruncateAt(Bibliography, text)
    /\ tpc' = "extracted"
    /\ UNCHANGED <<progVars, full_text, input, text2>>

NextFilter ==
    \/ JoinFullText
    \/ TruncateReferences
    \/ TruncateBibliography

SpecFilter == InitFilter /\ [][NextFilter]_vars

\* ------------------------------------------------------------ SpecClean
\* \s of the characters in use
IsSpace(c) == c \in {" ", "\t", "\n"}

\* length of the run of \s characters t begins with
RECURSIVE SpaceRun(_)
SpaceRun(t) ==
    IF t # <<>> /\ IsSpace(Head(t)) THEN 1 + SpaceRun(Tail(t)) ELSE 0

\* re.sub(r'-\n', '', t)
RECURSIVE SubHyphenBreak_bare(_)
SubHyphenBreak_bare(t) ==
    IF t = <<>> THEN <<>>
    ELSE IF Len(t) >= 2 /\ t[1] = "-" /\ t[2] = "\n"
      THEN SubHyphenBreak_bare(SubSeq(t, 3, Len(t)))
      ELSE <<Head(t)>> \o SubHyphenBreak_bare(Tail(t))

\* line 85: re.sub(r'-\s*\n\s*', '', t). A match starts at a hyphen whose run of
\* following \s characters holds a newline, and it takes the whole run.
RECURSIVE SubHyphenBreak(_)
SubHyphenBreak(t) ==
    IF t = <<>> THEN <<>>
    ELSE LET run == SpaceRun(Tail(t))
         IN IF Head(t) = "-" /\ \E i \in 2..(run + 1) : t[i] = "\n"
              THEN SubHyphenBreak(SubSeq(t, run + 2, Len(t)))
              ELSE <<Head(t)>> \o SubHyphenBreak(Tail(t))

\* line 87: re.sub(r'\n+', '\n', t)
RECURSIVE SubNewlines(_)
SubNewlines(t) ==
    IF t = <<>> THEN <<>>
    ELSE IF Head(t) = "\n" /\ Len(t) >= 2 /\ t[2] = "\n"
      THEN SubNewlines(Tail(t))
      ELSE <<Head(t)>> \o SubNewlines(Tail(t))

\* re.sub(r' +', ' ', t)
RECURSIVE SubBlanks_spacesOnly(_)
SubBlanks_spacesOnly(t) ==
    IF t = <<>> THEN <<>>
    ELSE IF Head(t) = " " /\ Len(t) >= 2 /\ t[2] = " "
      THEN SubBlanks_spacesOnly(Tail(t))
      ELSE <<Head(t)>> \o SubBlanks_spacesOnly(Tail(t))

\* line 89: re.sub(r'[ \t]+', ' ', t)
RECURSIVE SubBlanks(_)
SubBlanks(t) ==
    IF t = <<>> THEN <<>>
    ELSE IF Head(t) \in {" ", "\t"}
      THEN IF Len(t) >= 2 /\ t[2] \in {" ", "\t"}
             THEN SubBlanks(Tail(t))
             ELSE <<" ">> \o SubBlanks(Tail(t))
      ELSE <<Head(t)>> \o SubBlanks(Tail(t))

\* line 90: str.strip()
RECURSIVE Strip(_)
Strip(t) ==
    IF t = <<>> THEN <<>>
    ELSE IF IsSpace(Head(t)) THEN Strip(Tail(t))
    ELSE IF IsSpace(t[Len(t)]) THEN Strip(SubSeq(t, 1, Len(t) - 1))
    ELSE t

\* lines 85-90
clean_text(t) == Strip(SubBlanks(SubNewlines(SubHyphenBreak(t))))

Chars == {"-", "a", " ", "\t", "\n"}

InitClean ==
    /\ ProgIdle
    /\ tpc = "raw"
    /\ full_text = <<>>
    /\ input \in UNION {[1..k -> Chars] : k \in 0..MaxLen}
    /\ text = input
    /\ text2 = <<>>

\* clean_text(input)
CleanText ==
    /\ tpc = "raw"
    /\ text' = clean_text(text)
    /\ tpc' = "cleaned"
    /\ UNCHANGED <<progVars, full_text, input, text2>>

\* clean_text of the result
CleanTextAgain ==
    /\ tpc = "cleaned"
    /\ text2' = clean_text(text)
    /\ tpc' = "cleaned_twice"
    /\ UNCHANGED <<progVars, full_text, input, text>>

NextClean ==
    \/ CleanText
    \/ CleanTextAgain

SpecClean == InitClean /\ [][NextClean]_vars

\* ------------------------------------------------------------------ claims
ValidConfig == 0 <= overlap_tokens /\ overlap_tokens < chunk_size_tokens

\* The window [k*step, min(k*step + size, n)) of the claims, as token positions.
WindowOf(k, n) ==
    LET lo == k * (chunk_size_tokens - overlap_tokens)
        hi == Min(lo + chunk_size_tokens, n)
    IN [i \in 1..(hi - lo) |-> lo + i]

\* The smallest k whose window end reaches or exceeds n.
LastWindow(n) ==
    CHOOSE K \in 0..n :
        /\ K * (chunk_size_tokens - overlap_tokens) + chunk_size_tokens >= n
        /\ \A j \in 0..(K - 1) :
              j * (chunk_size_tokens - overlap_tokens) + chunk_size_tokens < n

ExpectedChunks(n) ==
    IF n = 0 THEN <<>> ELSE [k \in 1..(LastWindow(n) + 1) |-> WindowOf(k - 1, n)]

\* Under 0 <= overlap_tokens < chunk_size_tokens: what chunk_text returns, and
\* what it holds while the loop runs.
WindowsSoFar ==
    ValidConfig =>
        /\ pc = "chunked" => chunks = ExpectedChunks(total_tokens)
        /\ pc = "loop" =>
              /\ Len(chunks) <= Len(ExpectedChunks(total_tokens))
              /\ chunks = SubSeq(ExpectedChunks(total_tokens), 1, Len(chunks))
              /\ start = Len(chunks) * (chunk_size_tokens - overlap_tokens)
              /\ total_tokens > 0 => Len(chunks) < Len(ExpectedChunks(total_tokens))

\* C1: under 0 <= overlap_tokens < chunk_size_tokens, chunk_text returns exactly
\* the windows [k*step, min(k*step + size, n)) for k = 0..K in that order, K the
\* smallest k whose window reaches the end of the input, and the empty list for
\* n = 0; while the loop runs, the chunks so far are the first windows of that
\* list and not yet all of them, so no window is started after the one that
\* reaches the end; and the loop terminates: a call that has entered the loop
\* returns.
C1_ExactWindows ==
    /\ []WindowsSoFar
    /\ (pc = "loop") ~> (pc = "chunked")

\* chunk_text has returned two windows, the second one cut short by the end of
\* the input (the shape of n = 520, size 500, overlap 50).
C1_Witness ==
    /\ ValidConfig
    /\ overlap_tokens > 0
    /\ pc = "chunked"
    /\ Len(chunks) = 2
    /\ Len(chunks[1]) = chunk_size_tokens
    /\ Len(chunks[2]) < chunk_size_tokens

SeqRange(s) == {s[i] : i \in DOMAIN s}

\* C2: under a valid configuration every chunk after the first begins with
\* exactly the last overlap_tokens tokens of the chunk before it and shares no
\* other token with it, and every chunk but the last has chunk_size_tokens tokens.
C2_ExactOverlap ==
    ValidConfig =>
        /\ \A k \in 2..Len(chunks) :
              /\ Len(chunks[k]) >= overlap_tokens
              /\ SubSeq(chunks[k], 1, overlap_tokens)
                   = SubSeq(chunks[k - 1], Len(chunks[k - 1]) - overlap_tokens + 1,
                            Len(chunks[k - 1]))
              /\ Cardinality(SeqRange(chunks[k]) \cap SeqRange(chunks[k - 1]))
                   = overlap_tokens
        /\ \A k \in 1..(Len(chunks) - 1) : Len(chunks[k]) = chunk_size_tokens

\* three chunks with a positive overlap, the last one shorter than the others
C2_Witness ==
    /\ ValidConfig
    /\ overlap_tokens > 0
    /\ pc = "chunked"
    /\ Len(chunks) >= 3
    /\ Len(chunks[Len(chunks)]) < chunk_size_tokens

\* C3: with overlap_tokens >= chunk_size_tokens the instance exists, and every
\* call of chunk_text ends in the ValueError of line 111 before the loop: the
\* loop is never entered, no chunk is ever emitted, no call returns, and the
\* program gets past process_all_pdfs only when there was no file to chunk.
C3_ConfigError ==
    overlap_tokens >= chunk_size_tokens =>
        /\ pc \notin {"loop", "chunked"}
        /\ chunks = <<>> /\ emitted = <<>> /\ all_chunks = <<>>
        /\ docIdx = 1
        /\ raised = "ValueError" => pc = "aborted"
        /\ pc \in {"save", "done"} => pdf_files = <<>>

\* a call on a zero-token input has failed with the configuration error
C3_Witness ==
    /\ overlap_tokens >= chunk_size_tokens
    /\ pc = "aborted"
    /\ raised = "ValueError"
    /\ total_tokens = 0

\* C4 as stated: under a valid configuration a text of fewer than
\* chunk_size_tokens tokens gives exactly one chunk holding all its tokens.
C4_Original ==
    (ValidConfig /\ pc = "chunked" /\ total_tokens < chunk_size_tokens) =>
        chunks = <<Tokens(total_tokens)>>

\* C4 amended: under a valid configuration a text of at least one and fewer
\* than chunk_size_tokens tokens gives exactly one chunk holding all its tokens
\* in order.
C4_ShortText ==
    (ValidConfig /\ pc = "chunked" /\ 1 <= total_tokens
        /\ total_tokens < chunk_size_tokens) =>
        chunks = <<Tokens(total_tokens)>>

\* chunk_text has returned for a text of two tokens, fewer than chunk_size_tokens
C4_Witness ==
    /\ ValidConfig
    /\ pc = "chunked"
    /\ total_tokens = 2
    /\ total_tokens < chunk_size_tokens
    /\ Len(chunks) = 1

\* position of a file in the discovery order
PosOf(f) == CHOOSE i \in DOMAIN pdf_files : pdf_files[i] = f

\* C5: between documents and after the last one, the record list holds one
\* record per emitted chunk in emission order, with the chunk's text and its
\* file as source; the records of a file are contiguous and the files follow
\* the discovery order; chunk_index counts the earlier records of the same
\* file, so it runs 0, 1, 2, ... inside each file's block whatever the other
\* files produced.
C5_RecordOrder ==
    pc \in {"next_pdf", "save", "done"} =>
        /\ Len(all_chunks) = Len(emitted)
        /\ \A i \in DOMAIN all_chunks :
              /\ all_chunks[i].source = emitted[i].source
              /\ all_chunks[i].text = emitted[i].text
              /\ all_chunks[i].source \in {pdf_files[d] : d \in 1..(docIdx - 1)}
              /\ all_chunks[i].chunk_index =
                   Cardinality({j \in 1..(i - 1) :
                                   all_chunks[j].source = all_chunks[i].source})
        /\ \A i, j \in DOMAIN all_chunks :
              i < j => PosOf(all_chunks[i].source) <= PosOf(all_chunks[j].source)

\* two documents processed, each of at least two chunks
C5_Witness ==
    /\ pc = "done"
    /\ Len(pdf_files) = 2
    /\ \A d \in 1..2 :
          Cardinality({i \in DOMAIN all_chunks : all_chunks[i].source = pdf_files[d]}) >= 2

\* C6: save_chunks_to_json is called at most once, and only when every file
\* has been processed and nothing was raised; when a document fails, the run
\* ends with the error, the serializer is never called and the output file is
\* what it was before the run.
C6_NoPartialJson ==
    /\ saveCalls <= 1
    /\ saveCalls = 1 =>
          pc = "done" /\ raised = "None" /\ docIdx = Len(pdf_files) + 1
    /\ saveCalls = 0 => outFile = outFile0
    /\ raised # "None" => pc = "aborted" /\ saveCalls = 0 /\ outFile = outFile0
    /\ pc = "aborted" => raised # "None"

\* the second document failed after the first one had produced records, and an
\* older output file exists
C6_Witness ==
    /\ pc = "aborted"
    /\ docIdx = 2
    /\ Len(all_chunks) > 0
    /\ outFile0 = Stale

\* C9: at most one handle is open, only that of the document being extracted,
\* and none once the pipeline has finished or aborted.
C9_HandlesReleased ==
    /\ Cardinality(openHandles) <= 1
    /\ openHandles # {} => pc \in {"read", "close"} /\ openHandles = {CurrentPdf}
    /\ pc \in {"done", "aborted"} => openHandles = {}

\* offsets of the whole-word, case-insensitive occurrences of either keyword
KeywordOffsets(t) ==
    {i \in 0..Len(t) : MatchAt(References, t, i) \/ MatchAt(Bibliography, t, i)}

SetMin(S) == CHOOSE m \in S : \A x \in S : m <= x

\* C7: the text returned by the truncation of lines 63-69 is the joined page
\* text cut just before the earliest whole-word, case-insensitive occurrence of
\* "References" or "Bibliography" (all of it when there is none); it holds no
\* such occurrence of either keyword; and when "References" occurs and
\* "Bibliography" occurs only after it, it is what came before "References".
C7_Truncation ==
    tpc = "extracted" =>
        /\ input = JoinPages(full_text)
        /\ text = IF KeywordOffsets(input) = {} THEN input
                  ELSE SubSeq(input, 1, SetMin(KeywordOffsets(input)))
        /\ KeywordOffsets(text) = {}
        /\ LET r == ReSearch(References, input)
               b == ReSearch(Bibliography, input)
           IN (r >= 0 /\ b > r) => text = SubSeq(input, 1, r)

\* "References" occurs on the second page or later and "Bibliography" after it;
\* what came before "References" is returned
C7_Witness ==
    /\ tpc = "extracted"
    /\ Len(full_text) >= 2
    /\ ReSearch(References, input) >= 1
    /\ ReSearch(Bibliography, input) > ReSearch(References, input)
    /\ text = SubSeq(input, 1, ReSearch(References, input))

\* C8: clean_text of clean_text's result is that result.
C8_Idempotent ==
    tpc = "cleaned_twice" => text2 = text

\* a hyphen followed by a line break was removed, something is left, and the
\* second application has run
C8_Witness ==
    /\ tpc = "cleaned_twice"
    /\ \E i \in 1..(Len(input) - 1) : input[i] = "-" /\ input[i + 1] = "\n"
    /\ Len(text) >= 2
    /\ text2 = text

\* C10: the result of clean_text has no two newlines in a row, no two
\* characters of space or tab in a row, and neither begins nor ends with a
\* space, tab or newline.
C10_Collapsed ==
    tpc \in {"cleaned", "cleaned_twice"} =>
        /\ \A i \in 1..(Len(text) - 1) :
              /\ ~(text[i] = "\n" /\ text[i + 1] = "\n")
              /\ ~(text[i] \in {" ", "\t"} /\ text[i + 1] \in {" ", "\t"})
        /\ text # <<>> => ~IsSpace(text[1]) /\ ~IsSpace(text[Len(text)])

\* the removal of " -\n " style hyphen breaks brought two blanks together, and
\* the result holds a single space between the words
C10_Witness ==
    /\ tpc = "cleaned"
    /\ \E i \in 1..(Len(input) - 3) :
          /\ input[i] \in {" ", "\t"}
          /\ input[i + 1] = "-"
          /\ input[i + 2] = "\n"
          /\ input[i + 3] \in {" ", "\t"}
    /\ text = <<"a", " ", "a">>

====
